---- MODULE Spec2Model ----
(***************************************************************************)
(* Job-search assistant: the posting store (SQLite tables jobs and         *)
(* applications), the two job-board clients, the CV analyzer with its      *)
(* score extraction, the cover-letter generator and the orchestrating      *)
(* agent, modelled from src/backend/job_search_core.py (the root           *)
(* src/job_search_ai.py holds the same classes), and the HTTP service of   *)
(* src/backend/main.py.                                                    *)
(*                                                                         *)
(* The external world (provider responses, the answerer's output, the       *)
(* letter generator's output, the passing of wall-clock seconds) is an      *)
(* input of each handler, drawn from small sets.                            *)
(***************************************************************************)
EXTENDS Integers, Sequences, FiniteSets, TLC

(***************************************************************************)
(* Bounds of the exploration.                                              *)
(***************************************************************************)
\* longest result list of a Reed response
MaxReedResults == 2
\* longest result list of an Adzuna response
MaxAdzunaResults == 1
\* longest answer text given to the score extraction
MaxLen == 3
\* largest number of direct save_job calls in a behaviour of SpecDb
MaxSaves == 3
\* last second of the wall clock in SpecDb
MaxClock == 2
\* largest number of rows a store of SpecStore starts with
MaxRows == 51
\* largest CV identity
MaxCV == 2
\* largest limit given to a direct get_jobs call in SpecDb
MaxLimit == 2
\* number of requests sent to /analyze in SpecServer
MaxRequests == 2

(***************************************************************************)
(* Values.                                                                 *)
(***************************************************************************)
\* Python's None where a string is expected (a reserved string no field takes)
None == "<None>"
\* an absent match score (match_score: Optional[float] = None)
NoScore == <<>>

(***************************************************************************)
(* Floats. A float read from a decimal literal is <<m, e>>, standing for   *)
(* m / 10^e, normalised so that equal values are equal pairs.              *)
(***************************************************************************)
RECURSIVE Pow10(_)
Pow10(e) == IF e = 0 THEN 1 ELSE 10 * Pow10(e - 1)

RECURSIVE Norm(_, _)
Norm(m, e) == IF e > 0 /\ m % 10 = 0 THEN Norm(m \div 10, e - 1) ELSE <<m, e>>

Zero == Norm(0, 0)

FloatLeq(a, b) == a[1] * Pow10(b[2]) <= b[1] * Pow10(a[2])

FloatLess(a, b) == a[1] * Pow10(b[2]) < b[1] * Pow10(a[2])

(***************************************************************************)
(* Characters of an answer text, and the digits among them.                *)
(***************************************************************************)
Chars == {"0", "1", "5", ".", "x"}

IsDigit(c) == c \in {"0", "1", "2", "3", "4", "5", "6", "7", "8", "9"}

DigitVal(c) ==
    CASE c = "0" -> 0 [] c = "1" -> 1 [] c = "2" -> 2 [] c = "3" -> 3
      [] c = "4" -> 4 [] c = "5" -> 5 [] c = "6" -> 6 [] c = "7" -> 7
      [] c = "8" -> 8 [] c = "9" -> 9

\* int() of a digit string
RECURSIVE IntOf(_)
IntOf(ds) ==
    IF ds = <<>> THEN 0
    ELSE 10 * IntOf(SubSeq(ds, 1, Len(ds) - 1)) + DigitVal(ds[Len(ds)])

\* float() of the literal "<ip>" (fp empty) or "<ip>.<fp>"
FloatOf(ip, fp) == Norm(IntOf(ip) * Pow10(Len(fp)) + IntOf(fp), Len(fp))

(***************************************************************************)
(* CVAnalyzer._extract_score: re.search(r'(\d+(?:\.\d+)?)', result).       *)
(* re.search tries the start positions left to right and, at each, the     *)
(* greedy match of \d+ followed by the optional group \.\d+ .              *)
(***************************************************************************)
\* last index of the run of digits that starts at i (i - 1 when there is none)
RECURSIVE DigitRun(_, _)
DigitRun(text, i) ==
    IF i <= Len(text) /\ IsDigit(text[i]) THEN DigitRun(text, i + 1) ELSE i - 1

NoMatch == [found |-> FALSE, from |-> 0, mid |-> 0, to |-> 0]

\* the match of the pattern anchored at i: text[from..mid] are the digits before
\* the dot, text[mid+2..to] the digits after it (to = mid without a fraction)
MatchAt(text, i) ==
    LET j == DigitRun(text, i)
        k == IF j + 1 <= Len(text) /\ text[j + 1] = "." THEN DigitRun(text, j + 2) ELSE j
    IN  IF j < i THEN NoMatch
        ELSE [found |-> TRUE, from |-> i, mid |-> j, to |-> IF k >= j + 2 THEN k ELSE j]

RECURSIVE re_search(_, _)
re_search(text, i) ==
    IF i > Len(text) THEN NoMatch
    ELSE IF MatchAt(text, i).found THEN MatchAt(text, i)
    ELSE re_search(text, i + 1)

\* float(match.group(1))
GroupFloat(text, m) ==
    FloatOf(SubSeq(text, m.from, m.mid),
            IF m.to > m.mid THEN SubSeq(text, m.mid + 2, m.to) ELSE <<>>)

\* a plausible slip: the fraction after the dot is not taken
extract_score_int_only(text) ==
    LET m == re_search(text, 1)
    IN  IF m.found THEN FloatOf(SubSeq(text, m.from, m.mid), <<>>) ELSE Zero

_extract_score(text) ==
    LET m == re_search(text, 1)
    IN  IF m.found THEN GroupFloat(text, m) ELSE Zero

(***************************************************************************)
(* The answerer (qa_chain.invoke) seen from analyze_job_match: it raises,  *)
(* or returns a str, or returns something that is not a str (re.search     *)
(* then raises TypeError inside the same try block).                       *)
(***************************************************************************)
QaRaises == [kind |-> "raises", text |-> <<>>]
QaNotStr == [kind |-> "not_str", text |-> <<>>]
QaText(t) == [kind |-> "str", text |-> t]

RECURSIVE SeqsUpTo(_, _)
SeqsUpTo(S, n) ==
    IF n = 0 THEN {<<>>}
    ELSE LET shorter == SeqsUpTo(S, n - 1)
         IN  shorter \cup {Append(s, x) : s \in {t \in shorter : Len(t) = n - 1}, x \in S}

Texts == SeqsUpTo(Chars, MaxLen)

Answers == {QaRaises, QaNotStr} \cup {QaText(t) : t \in Texts}

\* the answers drawn while a search scores its postings
SearchAnswers == {QaRaises, QaText(<<"1", "5", "0">>)}

\* a plausible slip: the answerer is asked even when no index is loaded
analyze_job_match_unguarded(qa, answer) ==
    IF answer.kind = "str"
    THEN [score |-> _extract_score(answer.text), invoked |-> 1]
    ELSE [score |-> Zero, invoked |-> 1]

\* a plausible slip: a failed scoring gives no score instead of 0.0
analyze_job_match_none_on_error(qa, answer) ==
    IF qa = 0 THEN [score |-> Zero, invoked |-> 0]
    ELSE IF answer.kind = "str"
         THEN [score |-> _extract_score(answer.text), invoked |-> 1]
         ELSE [score |-> NoScore, invoked |-> 1]

\* CVAnalyzer.analyze_job_match: the score returned and the number of calls of
\* the answerer; qa is qa_chain (0 stands for None)
analyze_job_match(qa, answer) ==
    IF qa = 0 THEN [score |-> Zero, invoked |-> 0]
    ELSE IF answer.kind = "str"
         THEN [score |-> _extract_score(answer.text), invoked |-> 1]
         ELSE [score |-> Zero, invoked |-> 1]

(***************************************************************************)
(* JobPosting and the jobs table.                                          *)
(***************************************************************************)
PostingFields ==
    {"id", "title", "company", "location", "description", "requirements",
     "salary", "url", "date_posted", "source", "match_score"}

\* the row of the jobs table written for a posting at second t: the eleven
\* columns of the INSERT, applied by its default, created_at CURRENT_TIMESTAMP
Row(job, t) ==
    [id |-> job.id, title |-> job.title, company |-> job.company,
     location |-> job.location, description |-> job.description,
     requirements |-> job.requirements, salary |-> job.salary, url |-> job.url,
     date_posted |-> job.date_posted, source |-> job.source,
     match_score |-> job.match_score, applied |-> FALSE, created_at |-> t]

\* JobPosting(*row) of the eleven selected columns
PostingOfRow(r) == [f \in PostingFields |-> r[f]]

\* a plausible slip: a plain INSERT that leaves the row already there
save_job_insert_only(table, job, t) == Append(table, Row(job, t))

\* a plausible slip: INSERT OR IGNORE, which keeps the row already there
save_job_keep_first(table, job, t) ==
    IF \E i \in 1..Len(table) : table[i].id = job.id
    THEN table
    ELSE Append(table, Row(job, t))


\* JobSearchDatabase.save_job: INSERT OR REPLACE on the primary key id deletes
\* the row holding that id and inserts the new row (rows are kept in rowid order)
save_job(table, job, t) ==
    Append(SelectSeq(table, LAMBDA r : r.id # job.id), Row(job, t))

\* the saves of a list of postings, the k-th at second t + gap * (k - 1)
RECURSIVE save_all(_, _, _, _)
save_all(table, js, t, gap) ==
    IF js = <<>> THEN table
    ELSE save_all(save_job(table, Head(js), t), Tail(js), t + gap, gap)

SetMax(S) == CHOOSE x \in S : \A y \in S : y <= x

\* the orderings of a sequence
PermsOf(s) ==
    {[i \in 1..Len(s) |-> s[f[i]]] : f \in Permutations(1..Len(s))}

\* ORDER BY created_at DESC: every ordering of the rows by decreasing created_at;
\* SQL leaves the order of rows with equal created_at open
RECURSIVE Orders(_)
Orders(rows) ==
    IF rows = <<>> THEN {<<>>}
    ELSE LET newest == SetMax({rows[i].created_at : i \in 1..Len(rows)})
             group  == SelectSeq(rows, LAMBDA r : r.created_at = newest)
             rest   == SelectSeq(rows, LAMBDA r : r.created_at # newest)
         IN  {p \o o : p \in PermsOf(group), o \in Orders(rest)}

Take(s, n) == SubSeq(s, 1, IF Len(s) < n THEN Len(s) ELSE n)

\* JobSearchDatabase.get_jobs(limit): the lists it can return
get_jobs(table, limit) ==
    {[i \in 1..Len(Take(o, limit)) |-> PostingOfRow(o[i])] : o \in Orders(table)}

\* limit: int = 50
DefaultLimit == 50

(***************************************************************************)
(* JobAPIClient. A provider response is a transport failure or a JSON body *)
(* whose results are items; an item is a function from the keys it has.    *)
(***************************************************************************)
Without(item, key) == [k \in DOMAIN item \ {key} |-> item[k]]

HasKeys(item, keys) == keys \subseteq DOMAIN item

Credentials == {None, "", "key"}

\* `not value` for an Optional[str] read by os.getenv
Missing(value) == value = None \/ value = ""

Failed == [status |-> "failed", results |-> <<>>]
Body(items) == [status |-> "ok", results |-> items]
\* the response of a request that was not issued
NoResponse == [status |-> "none", results |-> <<>>]

ReedItem(n, v) ==
    [jobId |-> n, jobTitle |-> "title " \o v, employerName |-> "company " \o v,
     locationName |-> "location " \o v, jobDescription |-> "description " \o v,
     minimumSalary |-> "salary " \o v, jobUrl |-> "url " \o v, date |-> "date " \o v]

ReedMandatory ==
    {"jobId", "jobTitle", "employerName", "locationName", "jobDescription",
     "jobUrl", "date"}

\* sample items: one native posting in two versions (the second without the
\* optional salary), and an item that lacks a mandatory key
ReedItems ==
    {ReedItem(1, "a"), Without(ReedItem(1, "b"), "minimumSalary"),
     Without(ReedItem(1, "a"), "jobUrl")}

ReedPosting(item) ==
    [id |-> "reed_" \o ToString(item.jobId), title |-> item.jobTitle,
     company |-> item.employerName, location |-> item.locationName,
     description |-> item.jobDescription,
     requirements |-> IF "jobDescription" \in DOMAIN item THEN item.jobDescription ELSE "",
     salary |-> IF "minimumSalary" \in DOMAIN item THEN item.minimumSalary ELSE "",
     url |-> item.jobUrl, date_posted |-> item.date, source |-> "Reed",
     match_score |-> NoScore]

\* what a call of a client did: whether it was called at all, whether it raised,
\* whether it issued its request, and the list it returned
NotCalled == [called |-> FALSE, raised |-> FALSE, requested |-> FALSE, jobs |-> <<>>]
ClientRaised == [called |-> TRUE, raised |-> TRUE, requested |-> TRUE, jobs |-> <<>>]
ClientJobs(req, js) == [called |-> TRUE, raised |-> FALSE, requested |-> req, jobs |-> js]

\* a plausible slip: the transport failure is not caught
search_reed_jobs_uncaught(key, resp) ==
    IF Missing(key) THEN ClientJobs(FALSE, <<>>)
    ELSE IF resp.status = "failed" THEN ClientRaised
    ELSE IF \E i \in 1..Len(resp.results) : ~HasKeys(resp.results[i], ReedMandatory)
         THEN ClientRaised
    ELSE ClientJobs(TRUE, [i \in 1..Len(resp.results) |-> ReedPosting(resp.results[i])])

\* JobAPIClient.search_reed_jobs: whether it raised, whether it issued the
\* request, and the list it returned
search_reed_jobs(key, resp) ==
    IF Missing(key) THEN ClientJobs(FALSE, <<>>)
    ELSE IF resp.status = "failed" THEN ClientJobs(TRUE, <<>>)
    ELSE IF \E i \in 1..Len(resp.results) : ~HasKeys(resp.results[i], ReedMandatory)
         THEN ClientRaised
    ELSE ClientJobs(TRUE, [i \in 1..Len(resp.results) |-> ReedPosting(resp.results[i])])

AdzunaItem(n, v) ==
    [id |-> n, title |-> "title " \o v, company |-> [display_name |-> "company " \o v],
     location |-> [display_name |-> "location " \o v],
     description |-> "description " \o v, salary_min |-> "salary " \o v,
     redirect_url |-> "url " \o v, created |-> "date " \o v]

AdzunaMandatory ==
    {"id", "title", "company", "location", "description", "redirect_url", "created"}

AdzunaComplete(item) ==
    /\ HasKeys(item, AdzunaMandatory)
    /\ "display_name" \in DOMAIN item.company
    /\ "display_name" \in DOMAIN item.location

AdzunaItems ==
    {AdzunaItem(1, "a"), Without(AdzunaItem(1, "b"), "salary_min"),
     [AdzunaItem(1, "a") EXCEPT !.company = [name |-> "company a"]]}

AdzunaPosting(item) ==
    [id |-> "adzuna_" \o ToString(item.id), title |-> item.title,
     company |-> item.company.display_name, location |-> item.location.display_name,
     description |-> item.description,
     requirements |-> IF "description" \in DOMAIN item THEN item.description ELSE "",
     salary |-> IF "salary_min" \in DOMAIN item THEN item.salary_min ELSE "",
     url |-> item.redirect_url, date_posted |-> item.created, source |-> "Adzuna",
     match_score |-> NoScore]

\* a plausible slip: the request is issued although a credential is missing
search_adzuna_jobs_unguarded(app_id, app_key, resp) ==
    IF resp.status # "ok" THEN ClientJobs(TRUE, <<>>)
    ELSE IF \E i \in 1..Len(resp.results) : ~AdzunaComplete(resp.results[i])
         THEN ClientRaised
    ELSE ClientJobs(TRUE, [i \in 1..Len(resp.results) |-> AdzunaPosting(resp.results[i])])

\* JobAPIClient.search_adzuna_jobs
search_adzuna_jobs(app_id, app_key, resp) ==
    IF Missing(app_id) \/ Missing(app_key) THEN ClientJobs(FALSE, <<>>)
    ELSE IF resp.status = "failed" THEN ClientJobs(TRUE, <<>>)
    ELSE IF \E i \in 1..Len(resp.results) : ~AdzunaComplete(resp.results[i])
         THEN ClientRaised
    ELSE ClientJobs(TRUE, [i \in 1..Len(resp.results) |-> AdzunaPosting(resp.results[i])])

ReedResponses == {Failed} \cup {Body(items) : items \in SeqsUpTo(ReedItems, MaxReedResults)}

AdzunaResponses == {Failed} \cup {Body(items) : items \in SeqsUpTo(AdzunaItems, MaxAdzunaResults)}

(***************************************************************************)
(* all_jobs.sort(key=lambda j: j.match_score or 0, reverse=True)           *)
(***************************************************************************)
\* j.match_score or 0
SortKey(job) == IF job.match_score = NoScore THEN Zero ELSE job.match_score

\* a plausible slip: an ascending stable sort that is then reversed, which
\* turns the order of equal keys around
insert_before_equal(sorted, x) ==
    LET k == Cardinality({i \in 1..Len(sorted) : FloatLess(SortKey(x), SortKey(sorted[i]))})
    IN  SubSeq(sorted, 1, k) \o <<x>> \o SubSeq(sorted, k + 1, Len(sorted))

\* x goes behind every element whose key is not smaller (list.sort is stable,
\* also with reverse=True)
insert_sorted(sorted, x) ==
    LET k == Cardinality({i \in 1..Len(sorted) : FloatLeq(SortKey(x), SortKey(sorted[i]))})
    IN  SubSeq(sorted, 1, k) \o <<x>> \o SubSeq(sorted, k + 1, Len(sorted))

RECURSIVE sort_by_score(_)
sort_by_score(js) ==
    IF js = <<>> THEN <<>>
    ELSE insert_sorted(sort_by_score(SubSeq(js, 1, Len(js) - 1)), js[Len(js)])

(***************************************************************************)
(* State.                                                                  *)
(***************************************************************************)
VARIABLES
    jobs,            \* table jobs: its rows, in rowid order
    applications,    \* table applications: its rows
    reed_api_key,    \* JobAPIClient.reed_api_key
    adzuna_app_id,   \* JobAPIClient.adzuna_app_id
    adzuna_app_key,  \* JobAPIClient.adzuna_app_key
    qa_chain,        \* CVAnalyzer.qa_chain: the CV it answers about, or None
    now,             \* the wall clock, in seconds
    pc,              \* position of the driver: "start", then "searched" or "asked"
    op,              \* the last operation called
    arg,             \* its argument (a job id, a CV), or None
    outcome,         \* "return" or "raise" ("none" before the first call)
    reed_response,   \* what Reed answered in the last operation
    adzuna_response, \* what Adzuna answered in the last operation
    answers,         \* what the answerer produced, call by call, in the last operation
    reed_jobs,       \* the call of search_reed_jobs in the last operation
    adzuna_jobs,     \* the call of search_adzuna_jobs in the last operation
    all_jobs,        \* all_jobs when the loop of the last search ended, before the sort
    ret_jobs,        \* the list returned by the last search
    ret_score,       \* the score returned by the last analyze_job_match
    ret_dict,        \* the dict returned by the last generate_application_materials
    qa_calls,        \* calls of qa_chain.invoke in the last operation
    llm_calls,       \* calls of the letter chain in the last operation
    letter,          \* what the letter chain did in the last operation, or None
    handler_pc,      \* for each request to /analyze: the position of its handler
    loop_running,    \* the request whose handler the event loop is running, or 0
    response,        \* for each request to /analyze: the response sent
    last_saved       \* for each id given to save_job so far: the posting of the
                     \* most recent call with that id, and the number of calls

vars ==
    <<jobs, applications, reed_api_key, adzuna_app_id, adzuna_app_key,
      qa_chain, now, pc, op, arg, outcome, reed_response, adzuna_response, answers,
      reed_jobs, adzuna_jobs, all_jobs, ret_jobs, ret_score, ret_dict, qa_calls,
      llm_calls, letter, handler_pc, loop_running, response, last_saved>>

credentials == <<reed_api_key, adzuna_app_id, adzuna_app_key>>

server == <<handler_pc, loop_running, response>>

\* the CVs a user may load
CVs == 1..MaxCV

\* an empty dict
NoDict == [k \in {} |-> ""]

\* what an operation leaves of the previous operation's results
Cleared ==
    /\ reed_response' = NoResponse
    /\ adzuna_response' = NoResponse
    /\ answers' = <<>>
    /\ reed_jobs' = NotCalled
    /\ adzuna_jobs' = NotCalled
    /\ all_jobs' = <<>>
    /\ ret_jobs' = <<>>
    /\ ret_score' = NoScore
    /\ ret_dict' = NoDict
    /\ qa_calls' = 0
    /\ llm_calls' = 0
    /\ letter' = None

\* JobSearchAgent.__init__: no CV loaded, nothing called yet
InitAgent ==
    /\ applications = <<>>
    /\ qa_chain = 0
    /\ pc = "start"
    /\ op = "init"
    /\ arg = None
    /\ outcome = "none"
    /\ reed_response = NoResponse
    /\ adzuna_response = NoResponse
    /\ answers = <<>>
    /\ reed_jobs = NotCalled
    /\ adzuna_jobs = NotCalled
    /\ all_jobs = <<>>
    /\ ret_jobs = <<>>
    /\ ret_score = NoScore
    /\ ret_dict = NoDict
    /\ qa_calls = 0
    /\ llm_calls = 0
    /\ letter = None

\* the program run from the command line: no request is served
NoRequests ==
    /\ handler_pc = <<>>
    /\ loop_running = 0
    /\ response = <<>>

\* a fresh database file: CREATE TABLE IF NOT EXISTS makes the empty tables
InitDatabase ==
    /\ jobs = <<>>
    /\ now = 1
    /\ last_saved = NoDict

\* the database file is kept between runs: a posting an earlier run, made with
\* a CV, scored and saved
EarlierPosting == [ReedPosting(ReedItem(1, "a")) EXCEPT !.match_score = Norm(5, 0)]

InitKeptDatabase ==
    /\ jobs = <<Row(EarlierPosting, 1)>>
    /\ now = 2
    /\ last_saved = [id \in {EarlierPosting.id} |-> [job |-> EarlierPosting, calls |-> 1]]

\* the credentials are what the environment gives
Init ==
    /\ InitAgent
    /\ InitDatabase
    /\ NoRequests
    /\ reed_api_key \in Credentials
    /\ adzuna_app_id \in Credentials
    /\ adzuna_app_key \in Credentials

(***************************************************************************)
(* JobSearchAgent.setup_cv -> CVAnalyzer.load_cv. The load raises in the   *)
(* loader (the path names no file), or later, up to the binding of the     *)
(* answerer, or it succeeds. qa_chain is assigned by the last statement,   *)
(* so a load that raises leaves it as it was. vector_store, assigned one   *)
(* statement earlier, is read by no operation and is not part of the       *)
(* state. A failure propagates to the caller of setup_cv.                  *)
(***************************************************************************)
LoadFailures == {"missing", "chain", "none"}

\* the path of a file that does not exist, and the path of the file of a CV
MissingPath == "missing.pdf"

PathOf(cv) == "cv" \o ToString(cv) \o ".pdf"

\* a plausible slip: the failure is swallowed and the answerer bound anyway
load_cv_swallowed(qa, cv, failure) == [raised |-> FALSE, qa_chain |-> cv]

\* CVAnalyzer.load_cv: whether it raised, and qa_chain after it
load_cv(qa, cv, failure) ==
    IF failure = "none"
    THEN [raised |-> FALSE, qa_chain |-> cv]
    ELSE [raised |-> TRUE, qa_chain |-> qa]

setup_cv(cv, failure) ==
    /\ op' = "setup_cv"
    /\ arg' = IF failure = "missing" THEN MissingPath ELSE PathOf(cv)
    /\ outcome' = IF load_cv(qa_chain, cv, failure).raised THEN "raise" ELSE "return"
    /\ qa_chain' = load_cv(qa_chain, cv, failure).qa_chain
    /\ Cleared
    /\ UNCHANGED <<jobs, applications, credentials, now, last_saved>>

(***************************************************************************)
(* A direct call of CVAnalyzer.analyze_job_match.                          *)
(***************************************************************************)
AnalyzeJobMatch(answer) ==
    LET r == analyze_job_match(qa_chain, answer)
    IN  /\ op' = "analyze_job_match"
        /\ arg' = None
        /\ outcome' = "return"
        /\ ret_score' = r.score
        /\ qa_calls' = r.invoked
        /\ answers' = IF r.invoked = 1 THEN <<answer>> ELSE <<>>
        /\ reed_response' = NoResponse
        /\ adzuna_response' = NoResponse
        /\ reed_jobs' = NotCalled
        /\ adzuna_jobs' = NotCalled
        /\ all_jobs' = <<>>
        /\ ret_jobs' = <<>>
        /\ ret_dict' = NoDict
        /\ llm_calls' = 0
        /\ letter' = None
        /\ UNCHANGED <<jobs, applications, credentials, qa_chain, now, last_saved>>

(***************************************************************************)
(* JobSearchAgent.search_and_analyze_jobs.                                 *)
(***************************************************************************)
\* a plausible slip: the loop scores every posting, index or not
scored_unguarded(js, qa, ans) ==
    [k \in 1..Len(js) |->
        [js[k] EXCEPT !.match_score =
            IF qa # 0 THEN analyze_job_match(qa, ans[k]).score ELSE Zero]]


\* the loop body's scoring: job.match_score is assigned only with an index loaded
Scored(js, qa, ans) ==
    [k \in 1..Len(js) |->
        IF qa # 0
        THEN [js[k] EXCEPT !.match_score = analyze_job_match(qa, ans[k]).score]
        ELSE js[k]]

RECURSIVE Sum(_)
Sum(s) == IF s = <<>> THEN 0 ELSE Head(s) + Sum(Tail(s))

\* the record of the postings given to save_job, in call order
RECURSIVE Noted(_, _)
Noted(last, js) ==
    IF js = <<>> THEN last
    ELSE LET id == Head(js).id
             n  == IF id \in DOMAIN last THEN last[id].calls ELSE 0
         IN  Noted([i \in DOMAIN last \cup {id} |->
                       IF i = id THEN [job |-> Head(js), calls |-> n + 1] ELSE last[i]],
                   Tail(js))

\* the second after the last of n saves that started at second t
After(t, n, gap) == IF n = 0 THEN t ELSE t + gap * (n - 1)

\* a plausible slip: Reed's postings go through the loop before Adzuna is asked
reached_reed_first(r, a, scored) ==
    IF r.raised THEN <<>> ELSE IF a.raised THEN r.jobs ELSE scored

\* the postings the loop reaches: both clients are called before the loop, so
\* none when either of them raised
Reached(r, a, scored) == IF r.raised \/ a.raised THEN <<>> ELSE scored

search_and_analyze_jobs(reedResp, adzResp, ans, gap) ==
    LET r == search_reed_jobs(reed_api_key, reedResp)
        a == IF r.raised THEN NotCalled
             ELSE search_adzuna_jobs(adzuna_app_id, adzuna_app_key, adzResp)
        raised == r.raised \/ a.raised
        concat == r.jobs \o a.jobs
        scored == Scored(concat, qa_chain, ans)
        reached == Reached(r, a, scored)
    IN  /\ op' = "search_and_analyze_jobs"
        /\ arg' = None
        /\ reed_response' = reedResp
        /\ adzuna_response' = adzResp
        /\ reed_jobs' = r
        /\ adzuna_jobs' = a
        /\ answers' = ans
        /\ ret_score' = NoScore
        /\ ret_dict' = NoDict
        /\ llm_calls' = 0
        /\ letter' = None
        /\ IF raised
           THEN /\ outcome' = "raise"
                /\ all_jobs' = <<>>
                /\ ret_jobs' = <<>>
                /\ qa_calls' = 0
           ELSE /\ outcome' = "return"
                /\ all_jobs' = scored
                /\ ret_jobs' = sort_by_score(scored)
                /\ qa_calls' = Sum([k \in 1..Len(ans) |->
                                       analyze_job_match(qa_chain, ans[k]).invoked])
        /\ jobs' = save_all(jobs, reached, now, gap)
        /\ now' = After(now, Len(reached), gap)
        /\ last_saved' = Noted(last_saved, reached)
        /\ UNCHANGED <<applications, credentials, qa_chain>>

(***************************************************************************)
(* CoverLetterGenerator.generate_cover_letter: the chain's text, or "" when *)
(* the chain raises.                                                       *)
(***************************************************************************)
LetterOutcomes == {"raises", "Dear hiring manager"}

\* a plausible slip: a failed generation gives None instead of ""
generate_cover_letter_none(text) == IF text = "raises" THEN None ELSE text


generate_cover_letter(text) == IF text = "raises" THEN "" ELSE text

(***************************************************************************)
(* JobSearchAgent.generate_application_materials.                          *)
(***************************************************************************)
\* a plausible slip: the first posting is taken whatever its id
first_of_any_id(js, job_id) == IF Len(js) > 0 THEN 1 ELSE 0

\* next((j for j in jobs if j.id == job_id), None): the index of the first
\* posting with that id, 0 for None
FirstWithId(js, job_id) ==
    IF \E i \in 1..Len(js) : js[i].id = job_id
    THEN CHOOSE i \in 1..Len(js) :
            /\ js[i].id = job_id
            /\ \A k \in 1..(i - 1) : js[k].id # job_id
    ELSE 0

generate_application_materials(job_id, text) ==
    \E js \in get_jobs(jobs, DefaultLimit) :
        LET i == FirstWithId(js, job_id)
        IN  /\ (i = 0) => text = "raises"
            /\ op' = "generate_application_materials"
            /\ arg' = job_id
            /\ outcome' = "return"
            /\ ret_dict' =
                 IF i = 0 THEN [error |-> "Job not found"]
                 ELSE [job_title |-> js[i].title, company |-> js[i].company,
                       cover_letter |-> generate_cover_letter(text),
                       job_url |-> js[i].url]
            /\ llm_calls' = IF i = 0 THEN 0 ELSE 1
            /\ letter' = IF i = 0 THEN None ELSE text
            /\ reed_response' = NoResponse
            /\ adzuna_response' = NoResponse
            /\ answers' = <<>>
            /\ reed_jobs' = NotCalled
            /\ adzuna_jobs' = NotCalled
            /\ all_jobs' = <<>>
            /\ ret_jobs' = <<>>
            /\ ret_score' = NoScore
            /\ qa_calls' = 0
            /\ UNCHANGED <<jobs, applications, credentials, qa_chain, now, last_saved>>

\* the ids a caller may ask materials for: the two the providers can give, and
\* one no response holds
JobIds == {"reed_1", "adzuna_1", "reed_2"}

(***************************************************************************)
(* The program: a CV is loaded or not, postings are searched once, and     *)
(* materials are asked for (src/backend/job_search_ai.py, main).           *)
(***************************************************************************)
SetupCvStep ==
    /\ pc = "start"
    /\ UNCHANGED <<pc, server>>
    /\ \E cv \in CVs, failure \in LoadFailures : setup_cv(cv, failure)

AnalyzeStep ==
    /\ pc = "start"
    /\ UNCHANGED <<pc, server>>
    /\ \E answer \in SearchAnswers \cup {QaNotStr} : AnalyzeJobMatch(answer)

\* the inputs a search reads: a response for each request it issues, an answer
\* for each posting it scores, and whether a second passes between two saves
SearchStep ==
    /\ pc = "start"
    /\ pc' = "searched"
    /\ UNCHANGED server
    /\ \E reedResp \in IF Missing(reed_api_key) THEN {NoResponse} ELSE ReedResponses :
         LET r == search_reed_jobs(reed_api_key, reedResp)
         IN  \E adzResp \in IF r.raised \/ Missing(adzuna_app_id) \/ Missing(adzuna_app_key)
                            THEN {NoResponse} ELSE AdzunaResponses :
               LET a == search_adzuna_jobs(adzuna_app_id, adzuna_app_key, adzResp)
                   n == IF r.raised \/ a.raised THEN 0 ELSE Len(r.jobs) + Len(a.jobs)
                   m == IF qa_chain = 0 THEN 0 ELSE n
               IN  \E ans \in {s \in SeqsUpTo(SearchAnswers, m) : Len(s) = m},
                      gap \in IF n < 2 THEN {0} ELSE {0, 1} :
                        search_and_analyze_jobs(reedResp, adzResp, ans, gap)

GenerateStep ==
    /\ UNCHANGED <<pc, server>>
    /\ \E job_id \in JobIds, text \in LetterOutcomes :
         generate_application_materials(job_id, text)

Next == SetupCvStep \/ AnalyzeStep \/ SearchStep \/ GenerateStep

Spec == Init /\ [][Next]_vars

(***************************************************************************)
(* The program run again: the database file is fresh or the one an earlier *)
(* run left, each source has its credentials or none, a CV is loaded or    *)
(* not, and postings are searched once.                                    *)
(***************************************************************************)
InitRerun ==
    /\ InitAgent
    /\ InitDatabase \/ InitKeptDatabase
    /\ NoRequests
    /\ reed_api_key \in {None, "key"}
    /\ adzuna_app_id \in {None, "key"}
    /\ adzuna_app_key = adzuna_app_id

NextRerun == SetupCvStep \/ SearchStep

SpecRerun == InitRerun /\ [][NextRerun]_vars

(***************************************************************************)
(* The posting store alone: direct calls of save_job while seconds pass.   *)
(***************************************************************************)
SampleScores == {NoScore, Zero, Norm(150, 0)}

SamplePostings ==
    {[p EXCEPT !.match_score = sc] :
        p \in {ReedPosting(ReedItem(1, "a")),
               ReedPosting(Without(ReedItem(1, "b"), "minimumSalary")),
               AdzunaPosting(AdzunaItem(1, "a")),
               AdzunaPosting(Without(AdzunaItem(1, "b"), "salary_min"))},
        sc \in SampleScores}

SaveCalls == Sum([k \in 1..Len(jobs) |-> last_saved[jobs[k].id].calls])

SaveJob(job) ==
    /\ op' = "save_job"
    /\ arg' = job.id
    /\ outcome' = "return"
    /\ jobs' = save_job(jobs, job, now)
    /\ last_saved' = Noted(last_saved, <<job>>)
    /\ Cleared
    /\ UNCHANGED <<applications, credentials, qa_chain, now>>

SaveJobStep ==
    /\ SaveCalls < MaxSaves
    /\ UNCHANGED <<pc, server>>
    /\ \E job \in SamplePostings : SaveJob(job)

TickStep ==
    /\ now < MaxClock
    /\ now' = now + 1
    /\ UNCHANGED server
    /\ UNCHANGED <<jobs, applications, credentials, qa_chain, pc, op, arg, outcome,
                   reed_response, adzuna_response, answers, reed_jobs, adzuna_jobs,
                   all_jobs, ret_jobs, ret_score, ret_dict, qa_calls, llm_calls,
                   letter, last_saved>>

\* a direct call of JobSearchDatabase.get_jobs(limit)
GetJobs(limit) ==
    \E js \in get_jobs(jobs, limit) :
        /\ op' = "get_jobs"
        /\ arg' = ToString(limit)
        /\ outcome' = "return"
        /\ ret_jobs' = js
        /\ reed_response' = NoResponse
        /\ adzuna_response' = NoResponse
        /\ answers' = <<>>
        /\ reed_jobs' = NotCalled
        /\ adzuna_jobs' = NotCalled
        /\ all_jobs' = <<>>
        /\ ret_score' = NoScore
        /\ ret_dict' = NoDict
        /\ qa_calls' = 0
        /\ llm_calls' = 0
        /\ letter' = None
        /\ UNCHANGED <<jobs, applications, credentials, qa_chain, now, last_saved>>

Limits == 0..MaxLimit

GetJobsStep ==
    /\ UNCHANGED <<pc, server>>
    /\ \E limit \in Limits : GetJobs(limit)


NoCredentials ==
    /\ reed_api_key = None
    /\ adzuna_app_id = None
    /\ adzuna_app_key = None

InitDb == InitAgent /\ InitDatabase /\ NoRequests /\ NoCredentials

NextDb == SaveJobStep \/ TickStep \/ GetJobsStep

SpecDb == InitDb /\ [][NextDb]_vars

(***************************************************************************)
(* The store as earlier runs of the program left it (the database file is  *)
(* kept between runs): n postings of distinct ids, saved one per second,   *)
(* and materials asked for any of them.                                    *)
(***************************************************************************)
NativePosting(k) == ReedPosting(ReedItem(k, "a"))

StoreOf(n) == [k \in 1..n |-> Row(NativePosting(k), k)]

InitStore ==
    /\ InitAgent
    /\ NoRequests
    /\ NoCredentials
    /\ \E n \in 0..MaxRows :
          /\ jobs = StoreOf(n)
          /\ now = n + 1
          /\ last_saved = Noted(NoDict, [k \in 1..n |-> NativePosting(k)])

\* the driver's one request for materials (src/backend/job_search_ai.py, main)
GenerateStoredStep ==
    /\ pc = "start"
    /\ pc' = "asked"
    /\ UNCHANGED server
    /\ \E k \in 1..(MaxRows + 1), text \in LetterOutcomes :
         generate_application_materials(NativePosting(k).id, text)

NextStore == GenerateStoredStep

SpecStore == InitStore /\ [][NextStore]_vars

(***************************************************************************)
(* The scorer alone: analyze_job_match on every answer text.               *)
(***************************************************************************)
ScoreStep ==
    /\ UNCHANGED <<pc, server>>
    /\ \E answer \in Answers : AnalyzeJobMatch(answer)

InitScore == InitAgent /\ InitDatabase /\ NoRequests /\ NoCredentials

NextScore == SetupCvStep \/ ScoreStep

SpecScore == InitScore /\ [][NextScore]_vars

(***************************************************************************)
(* The HTTP service (src/backend/main.py): one agent for the process, and  *)
(* requests to /analyze, each uploading its own CV. A request's handler    *)
(* first loads the CV into the shared agent, then searches. The handler is *)
(* a coroutine that never awaits, so the event loop runs it from its first *)
(* statement to its response before it runs any other handler.             *)
(***************************************************************************)
Requests == 1..MaxRequests

\* the CV a request uploads: each request its own
CvOf(r) == r

\* no response sent yet; the responses of the two branches of the handler
NoReply == [status |-> 0, matches |-> <<>>, scored_with |-> 0]

ErrorReply == [status |-> 500, matches |-> <<>>, scored_with |-> 0]

MatchesReply(matches, qa) == [status |-> 200, matches |-> matches, scored_with |-> qa]

\* a plausible slip: a plain `def analyze`, which the framework runs in a
\* pool of threads, so that handlers interleave
may_run_in_threads(r) == TRUE

\* async def analyze, without an await: the event loop runs the handler of r
\* when it runs no handler, and goes on with the handler it is running
MayRun(r) == loop_running \in {0, r}

\* what Reed answers a served search: a failure, a posting, another version of
\* it, a malformed item
ServedReedResponses ==
    {Failed, Body(<<ReedItem(1, "a")>>),
     Body(<<Without(ReedItem(1, "b"), "minimumSalary")>>),
     Body(<<Without(ReedItem(1, "a"), "jobUrl")>>)}

\* line 21: the framework reads the form and the upload of a request off the
\* connection, between handlers, before it calls the handler
ReceiveStep(r) ==
    /\ handler_pc[r] = "sent"
    /\ loop_running = 0
    /\ handler_pc' = [handler_pc EXCEPT ![r] = "received"]
    /\ UNCHANGED <<jobs, applications, credentials, qa_chain, now, pc, op, arg,
                   outcome, reed_response, adzuna_response, answers, reed_jobs,
                   adzuna_jobs, all_jobs, ret_jobs, ret_score, ret_dict, qa_calls,
                   llm_calls, letter, loop_running, response, last_saved>>

\* lines 22-30: the upload is written to a temporary file and loaded; an
\* exception is answered with status 500
AnalyzeSetupCvStep(r) ==
    /\ handler_pc[r] = "received"
    /\ MayRun(r)
    /\ \E failure \in LoadFailures \ {"missing"} : setup_cv(CvOf(r), failure)
    /\ IF outcome' = "raise"
       THEN /\ handler_pc' = [handler_pc EXCEPT ![r] = "responded"]
            /\ response' = [response EXCEPT ![r] = ErrorReply]
            /\ loop_running' = 0
       ELSE /\ handler_pc' = [handler_pc EXCEPT ![r] = "cv_set"]
            /\ response' = response
            /\ loop_running' = r
    /\ UNCHANGED pc

\* lines 32-39: the search, answered with the matches, or with status 500 when
\* it raised; the scores are computed against the index the agent holds then
AnalyzeSearchStep(r) ==
    /\ handler_pc[r] = "cv_set"
    /\ MayRun(r)
    /\ \E reedResp \in ServedReedResponses :
         LET n == IF search_reed_jobs(reed_api_key, reedResp).raised THEN 0
                  ELSE Len(search_reed_jobs(reed_api_key, reedResp).jobs)
             m == IF qa_chain = 0 THEN 0 ELSE n
         IN  \E ans \in {s \in SeqsUpTo(SearchAnswers, m) : Len(s) = m} :
                search_and_analyze_jobs(reedResp, NoResponse, ans, 0)
    /\ handler_pc' = [handler_pc EXCEPT ![r] = "responded"]
    /\ response' = [response EXCEPT ![r] =
                       IF outcome' = "raise" THEN ErrorReply
                       ELSE MatchesReply(ret_jobs', qa_chain)]
    /\ loop_running' = 0
    /\ UNCHANGED pc

\* the service has the key of Reed only
ReedCredentialsOnly ==
    /\ reed_api_key = "key"
    /\ adzuna_app_id = None
    /\ adzuna_app_key = None

\* agent = JobSearchAgent() at import; the requests are sent, none received
InitServer ==
    /\ InitAgent
    /\ InitDatabase
    /\ ReedCredentialsOnly
    /\ handler_pc = [r \in Requests |-> "sent"]
    /\ loop_running = 0
    /\ response = [r \in Requests |-> NoReply]

NextServer ==
    \E r \in Requests : ReceiveStep(r) \/ AnalyzeSetupCvStep(r) \/ AnalyzeSearchStep(r)

SpecServer == InitServer /\ [][NextServer]_vars

(***************************************************************************)
(* Properties.                                                             *)
(***************************************************************************)
Searched == op = "search_and_analyze_jobs"
Asked == op = "generate_application_materials"
Analyzed == op = "analyze_job_match"

StoredIds == {jobs[i].id : i \in 1..Len(jobs)}

\* C1: after any sequence of save_job calls the jobs table holds exactly one
\* row for each id ever saved, and the eleven stored fields of that row are
\* those of the most recent save_job call with that id.
C1_UpsertLastWriteWins ==
    /\ \A i, k \in 1..Len(jobs) : jobs[i].id = jobs[k].id => i = k
    /\ StoredIds = DOMAIN last_saved
    /\ \A i \in 1..Len(jobs) : PostingOfRow(jobs[i]) = last_saved[jobs[i].id].job

\* C1 witness: an id was saved twice, the second time with other field values
\* than the first row had, beside the row of another id.
C1_Witness ==
    /\ op = "save_job"
    /\ Len(jobs) = 2
    /\ last_saved[arg].calls = 2
    /\ last_saved[arg].job.title = "title b"
    /\ last_saved[arg].job.match_score = Norm(150, 0)

\* the score a posting is ordered by: its match score, an absent one as 0
OrderScore(p) == IF p.match_score = NoScore THEN Zero ELSE p.match_score

WithoutScore(p) == [p EXCEPT !.match_score = NoScore]

\* the concatenation Reed results followed by Adzuna results
Concatenation == reed_jobs.jobs \o adzuna_jobs.jobs

\* C2: the list a search returns is the concatenation of the Reed and the
\* Adzuna results rearranged so that the ordering scores never increase, and
\* two postings of equal ordering score stand as they stood in the
\* concatenation.
C2_SortedDescendingStable ==
    (Searched /\ outcome = "return") =>
        /\ Len(all_jobs) = Len(Concatenation)
        /\ \A k \in 1..Len(all_jobs) : WithoutScore(all_jobs[k]) = Concatenation[k]
        /\ Len(ret_jobs) = Len(all_jobs)
        /\ \E f \in Permutations(1..Len(all_jobs)) :
              /\ \A k \in 1..Len(ret_jobs) : ret_jobs[k] = all_jobs[f[k]]
              /\ \A k, l \in 1..Len(ret_jobs) :
                    k < l =>
                      /\ FloatLeq(OrderScore(ret_jobs[l]), OrderScore(ret_jobs[k]))
                      /\ OrderScore(ret_jobs[l]) = OrderScore(ret_jobs[k]) => f[k] < f[l]

\* C2 witness: a search returned three postings in another order than the
\* concatenation had, with a Reed and an Adzuna posting of equal score.
C2_Witness ==
    /\ Searched
    /\ outcome = "return"
    /\ Len(ret_jobs) = 3
    /\ ret_jobs # all_jobs
    /\ \E k, l \in 1..3 :
          /\ k < l
          /\ OrderScore(ret_jobs[k]) = OrderScore(ret_jobs[l])
          /\ ret_jobs[k].source = "Reed"
          /\ ret_jobs[l].source = "Adzuna"

\* C3: with no CV loaded, a search returns every posting with an absent or
\* zero match score and never asks the answerer, a direct analyze_job_match
\* returns 0.0 without asking the answerer, and a search raises only when a
\* source client raised.
C3_NoCvNoScore ==
    qa_chain = 0 =>
        /\ Searched =>
              /\ qa_calls = 0
              /\ outcome = "raise" => (reed_jobs.raised \/ adzuna_jobs.raised)
              /\ \A k \in 1..Len(ret_jobs) : ret_jobs[k].match_score \in {NoScore, Zero}
        /\ Analyzed =>
              /\ outcome = "return"
              /\ ret_score = Zero
              /\ qa_calls = 0

\* C3 witness: a search with no CV loaded returned postings of both sources.
C3_Witness ==
    /\ Searched
    /\ qa_chain = 0
    /\ outcome = "return"
    /\ Len(reed_jobs.jobs) > 0
    /\ Len(adzuna_jobs.jobs) > 0
    /\ Len(ret_jobs) = Len(reed_jobs.jobs) + Len(adzuna_jobs.jobs)

\* what a client that found its credentials missing did: no request, no raise,
\* an empty list
ReturnedEmptyUnasked == ClientJobs(FALSE, <<>>)

\* what a client whose request failed did: the request, no raise, an empty list
ReturnedEmptyAfterFailure == ClientJobs(TRUE, <<>>)

\* the postings a response holds, as the mapping table gives them
ReedPostingsOf(resp) == [i \in 1..Len(resp.results) |-> ReedPosting(resp.results[i])]
AdzunaPostingsOf(resp) == [i \in 1..Len(resp.results) |-> AdzunaPosting(resp.results[i])]

\* the list returned holds exactly the postings js, whatever score each got
ReturnsExactly(js) ==
    /\ Len(all_jobs) = Len(js)
    /\ \A k \in 1..Len(js) : WithoutScore(all_jobs[k]) = js[k]
    /\ \E f \in Permutations(1..Len(js)) :
          \A k \in 1..Len(js) : ret_jobs[k] = all_jobs[f[k]]

\* C4: a client whose credentials are missing (the Reed key, or the Adzuna id
\* or key) returns an empty list without raising and without a request, and
\* the search then returns exactly the postings of the other source's
\* response.
C4_MissingCredentialOnlyEmptiesItsSource ==
    Searched =>
        /\ Missing(reed_api_key) =>
              /\ reed_jobs = ReturnedEmptyUnasked
              /\ reed_response = NoResponse
              /\ outcome = "return" =>
                    ReturnsExactly(IF adzuna_response.status = "ok"
                                   THEN AdzunaPostingsOf(adzuna_response) ELSE <<>>)
        /\ (Missing(adzuna_app_id) \/ Missing(adzuna_app_key)) /\ adzuna_jobs.called =>
              /\ adzuna_jobs = ReturnedEmptyUnasked
              /\ adzuna_response = NoResponse
              /\ outcome = "return"
              /\ ReturnsExactly(IF reed_response.status = "ok"
                                THEN ReedPostingsOf(reed_response) ELSE <<>>)

\* C4 witness: a search without the Adzuna key returned the two postings of
\* the Reed response.
C4_Witness ==
    /\ Searched
    /\ ~Missing(adzuna_app_id)
    /\ Missing(adzuna_app_key)
    /\ outcome = "return"
    /\ Len(reed_response.results) = 2
    /\ Len(ret_jobs) = 2

\* every posting of the list returned is in the store, and is scored if a CV
\* is loaded
ScoredAndPersisted ==
    \A k \in 1..Len(ret_jobs) :
        /\ ret_jobs[k].id \in StoredIds
        /\ qa_chain # 0 => ret_jobs[k].match_score # NoScore

\* C5: a client whose request fails at transport level returns an empty list
\* and does not raise; unless the other client raises, the search returns,
\* and what it returns is exactly the other source's postings, scored (with a
\* CV loaded) and persisted.
C5_TransportFailureOnlyEmptiesItsSource ==
    Searched =>
        /\ reed_response = Failed =>
              /\ reed_jobs = ReturnedEmptyAfterFailure
              /\ adzuna_jobs.called
              /\ ~adzuna_jobs.raised =>
                    /\ outcome = "return"
                    /\ ReturnsExactly(adzuna_jobs.jobs)
                    /\ adzuna_response.status = "ok" =>
                          adzuna_jobs.jobs = AdzunaPostingsOf(adzuna_response)
                    /\ ScoredAndPersisted
        /\ adzuna_response = Failed =>
              /\ adzuna_jobs = ReturnedEmptyAfterFailure
              /\ outcome = "return"
              /\ ReturnsExactly(reed_jobs.jobs)
              /\ reed_response.status = "ok" =>
                    reed_jobs.jobs = ReedPostingsOf(reed_response)
              /\ ScoredAndPersisted

\* C5 witness: Reed's request failed and the search, with a CV loaded,
\* returned Adzuna's posting with a score.
C5_Witness ==
    /\ Searched
    /\ reed_response = Failed
    /\ qa_chain # 0
    /\ outcome = "return"
    /\ Len(ret_jobs) = 1
    /\ ret_jobs[1].source = "Adzuna"
    /\ ret_jobs[1].match_score = Norm(150, 0)

NotFound == [error |-> "Job not found"]

\* C6: materials asked for an id that has no row in the store: the call
\* returns the dict {"error": "Job not found"}, raises nothing, and the letter
\* chain is not called.
C6_AbsentIdGivesNotFound ==
    (Asked /\ arg \notin StoredIds) =>
        /\ outcome = "return"
        /\ ret_dict = NotFound
        /\ llm_calls = 0

\* C6 witness: materials were asked for an id that the store, holding rows of
\* other ids, does not hold.
C6_Witness ==
    /\ Asked
    /\ Len(jobs) = 2
    /\ arg \notin StoredIds
    /\ ret_dict = NotFound

\* the dict of materials built from a stored row
MaterialsOf(row, d) ==
    /\ DOMAIN d = {"job_title", "company", "cover_letter", "job_url"}
    /\ d.job_title = row.title
    /\ d.company = row.company
    /\ d.job_url = row.url
    /\ d.cover_letter \in {generate_cover_letter(l) : l \in LetterOutcomes}

\* C7: materials asked for an id that has a row in the store, however many
\* rows the store holds: the call returns the dict of title, company, letter
\* and url built from that row, never the not-found marker.
C7_StoredIdGivesMaterials ==
    (Asked /\ arg \in StoredIds) =>
        \E i \in 1..Len(jobs) : jobs[i].id = arg /\ MaterialsOf(jobs[i], ret_dict)

\* C8: once materials were generated for a stored posting, the applications
\* table holds a record that references the posting's id and holds the letter
\* generated.
C8_MaterialsAreRecorded ==
    (Asked /\ "cover_letter" \in DOMAIN ret_dict) =>
        \E i \in 1..Len(applications) :
            /\ applications[i].job_id = arg
            /\ applications[i].cover_letter = ret_dict.cover_letter

Hundred == Norm(100, 0)

InRange(score) == score = NoScore \/ (FloatLeq(Zero, score) /\ FloatLeq(score, Hundred))

\* C9: every match score the scorer returns, a search attaches and returns,
\* or the jobs table stores is absent or a number from 0 to 100, whatever the
\* answerer's text.
C9_ScoresWithinRange ==
    /\ InRange(ret_score)
    /\ \A k \in 1..Len(all_jobs) : InRange(all_jobs[k].match_score)
    /\ \A k \in 1..Len(ret_jobs) : InRange(ret_jobs[k].match_score)
    /\ \A i \in 1..Len(jobs) : InRange(jobs[i].match_score)

\* s is digits, or digits, a dot and digits
IsNumeral(s) ==
    \/ Len(s) > 0 /\ \A i \in 1..Len(s) : IsDigit(s[i])
    \/ \E d \in 2..(Len(s) - 1) :
          /\ s[d] = "."
          /\ \A i \in (1..Len(s)) \ {d} : IsDigit(s[i])

\* the float a numeral reads as
NumeralValue(s) ==
    IF \E d \in 1..Len(s) : s[d] = "."
    THEN LET d == CHOOSE d \in 1..Len(s) : s[d] = "."
         IN  FloatOf(SubSeq(s, 1, d - 1), SubSeq(s, d + 1, Len(s)))
    ELSE FloatOf(s, <<>>)

\* the substrings of a text that are numerals, as <<first index, last index>>
Numerals(text) ==
    {ij \in (1..Len(text)) \X (1..Len(text)) :
        ij[1] <= ij[2] /\ IsNumeral(SubSeq(text, ij[1], ij[2]))}

\* the leftmost numeral of a text, taken as far as it goes
FirstNumeral(text) ==
    CHOOSE ij \in Numerals(text) :
        \A other \in Numerals(text) :
            ij[1] < other[1] \/ (ij[1] = other[1] /\ ij[2] >= other[2])

\* C10: with an index loaded, the score analyze_job_match returns for an
\* answer text is the float value of the leftmost substring of the text that
\* is digits optionally followed by a dot and digits, whatever numbers come
\* later in the text, and 0.0 when the text holds no digit.
C10_ScoreIsFirstNumber ==
    (Analyzed /\ qa_chain # 0 /\ answers # <<>> /\ answers[1].kind = "str") =>
        LET text == answers[1].text
        IN  /\ outcome = "return"
            /\ (\A i \in 1..Len(text) : ~IsDigit(text[i])) => ret_score = Zero
            /\ (\E i \in 1..Len(text) : IsDigit(text[i])) =>
                  LET ij == FirstNumeral(text)
                  IN  ret_score = NumeralValue(SubSeq(text, ij[1], ij[2]))

\* C10 witness: the answer text "5x1", which holds a later number, was scored
\* 5.0 with an index loaded.
C10_Witness ==
    /\ Analyzed
    /\ qa_chain # 0
    /\ answers = <<QaText(<<"5", "x", "1">>)>>
    /\ ret_score = Norm(5, 0)

\* the posting of the store's row with that id
StoredPosting(id) ==
    PostingOfRow(jobs[CHOOSE i \in 1..Len(jobs) : jobs[i].id = id])

\* the answerer failed on the k-th posting of the last search: the call raised,
\* or its result could not be parsed
ScoringFailed(k) == answers[k].kind # "str"

\* C11: with an index loaded, an error raised while scoring one posting (by
\* the call of the answerer or by the parsing of its result) is caught inside
\* analyze_job_match and gives the score 0.0; the search raises nothing for
\* it, persists that posting, and scores and persists every other posting of
\* the run: the answerer was called once for each posting.
C11_ScoringErrorGivesZeroAndSearchGoesOn ==
    /\ (Searched /\ qa_chain # 0 /\ ~reed_jobs.raised /\ ~adzuna_jobs.raised) =>
          /\ outcome = "return"
          /\ Len(all_jobs) = Len(Concatenation)
          /\ Len(answers) = Len(all_jobs)
          /\ qa_calls = Len(all_jobs)
          /\ \A k \in 1..Len(all_jobs) :
                /\ ScoringFailed(k) => all_jobs[k].match_score = Zero
                /\ ~ScoringFailed(k) =>
                      all_jobs[k].match_score = _extract_score(answers[k].text)
                /\ all_jobs[k].id \in StoredIds
    /\ (Analyzed /\ qa_chain # 0 /\ answers # <<>> /\ answers[1].kind # "str") =>
          outcome = "return" /\ ret_score = Zero

\* C11 witness: the answerer raised on the first posting of a search, which was
\* scored 0.0 and stored, and the second posting was scored 150.0 and stored.
C11_Witness ==
    /\ Searched
    /\ outcome = "return"
    /\ qa_chain # 0
    /\ Len(all_jobs) >= 2
    /\ answers[1] = QaRaises
    /\ all_jobs[1].match_score = Zero
    /\ all_jobs[2].match_score = Norm(150, 0)
    /\ all_jobs[1].id # all_jobs[2].id
    /\ StoredPosting(all_jobs[1].id) = all_jobs[1]
    /\ StoredPosting(all_jobs[2].id) = all_jobs[2]

\* C12: when search_and_analyze_jobs returns normally, the store holds a row
\* with the id of every posting of the returned list, scored or not, and a
\* returned posting carries a match score (not None) exactly when an index was
\* loaded when the call ran.
C12_ReturnedArePersistedAndScoredIffIndex ==
    (Searched /\ outcome = "return") =>
        \A k \in 1..Len(ret_jobs) :
            /\ ret_jobs[k].id \in StoredIds
            /\ (ret_jobs[k].match_score # NoScore) <=> (qa_chain # 0)

\* C12 witness: a search with no index loaded returned two postings of
\* different ids, neither scored, both stored.
C12_Witness ==
    /\ Searched
    /\ outcome = "return"
    /\ qa_chain = 0
    /\ Len(ret_jobs) >= 2
    /\ ret_jobs[1].id # ret_jobs[2].id
    /\ ret_jobs[1].match_score = NoScore
    /\ {ret_jobs[1].id, ret_jobs[2].id} \subseteq StoredIds

Asked_get_jobs == op = "get_jobs"

\* the rows in the order they were written, last written first
LastWrittenFirst == [k \in 1..Len(jobs) |-> PostingOfRow(jobs[Len(jobs) + 1 - k])]

\* C13: get_jobs(limit) returns at most limit postings, the most recently
\* written ones, and of any two stored postings the one whose row was written
\* later (a re-save counts as a new write) comes earlier in the result, also
\* when both rows were written within the same second: the result is the
\* first limit postings of the store taken last written first.
C13_MostRecentlyWrittenFirst ==
    Asked_get_jobs =>
        \E limit \in Limits :
            /\ arg = ToString(limit)
            /\ Len(ret_jobs) <= limit
            /\ ret_jobs = Take(LastWrittenFirst, limit)

\* the CV whose file a path names
CvOfPath(path) == CHOOSE cv \in CVs : PathOf(cv) = path

LoadedCv == op = "setup_cv"

\* C14: a load_cv that fails (for one, on a path that names no file) ends the
\* call of setup_cv with the error and installs nothing: the index loaded
\* after the call, or its absence, is what it was before the call, and with
\* no index scoring goes on as without a CV (0.0, the answerer not called);
\* a load_cv that succeeds always leaves the index of the CV just loaded,
\* whatever was loaded before.
C14_FailedLoadPropagatesAndKeepsIndex ==
    /\ [][LoadedCv' =>
            /\ (arg' = MissingPath) => (outcome' = "raise")
            /\ (outcome' = "raise") => (qa_chain' = qa_chain)
            /\ (outcome' = "return") => (qa_chain' = CvOfPath(arg'))]_vars
    /\ []((Analyzed /\ qa_chain = 0) => (ret_score = Zero /\ qa_calls = 0))

\* C14 witness: setup_cv on a path that names no file raised with no index
\* loaded before it, and none is loaded after it.
C14_Witness ==
    /\ LoadedCv
    /\ arg = MissingPath
    /\ outcome = "raise"
    /\ qa_chain = 0

\* C15: when the letter chain fails, generate_cover_letter returns the empty
\* string and raises nothing: generate_application_materials for a stored
\* posting returns the dict of that posting's title, company and url with the
\* letter "", not the error marker and not an exception.
C15_FailedLetterGivesEmptyLetter ==
    (Asked /\ letter = "raises") =>
        /\ outcome = "return"
        /\ llm_calls = 1
        /\ ret_dict # NotFound
        /\ DOMAIN ret_dict = {"job_title", "company", "cover_letter", "job_url"}
        /\ ret_dict.cover_letter = ""
        /\ \E i \in 1..Len(jobs) :
              /\ jobs[i].id = arg
              /\ ret_dict.job_title = jobs[i].title
              /\ ret_dict.company = jobs[i].company
              /\ ret_dict.job_url = jobs[i].url

\* C15 witness: materials were asked for a stored posting, the letter chain
\* raised, and the dict returned holds the posting's title and the letter "".
C15_Witness ==
    /\ Asked
    /\ letter = "raises"
    /\ arg \in StoredIds
    /\ outcome = "return"
    /\ "cover_letter" \in DOMAIN ret_dict
    /\ ret_dict.cover_letter = ""
    /\ ret_dict.job_title = StoredPosting(arg).title

\* some item of a response lacks a mandatory field
MalformedReed(resp) ==
    resp.status = "ok" /\ \E i \in 1..Len(resp.results) : ~HasKeys(resp.results[i], ReedMandatory)

MalformedAdzuna(resp) ==
    resp.status = "ok" /\ \E i \in 1..Len(resp.results) : ~AdzunaComplete(resp.results[i])

\* C16: when an item of a provider's result list lacks a mandatory field, the
\* client of that source raises (the error is not taken for a transport
\* failure), search_and_analyze_jobs raises with it, and nothing of the call
\* remains: no posting of either source is returned, scored or saved, and the
\* jobs table is what it was before the call.
C16_MalformedItemAbortsWholeSearch ==
    [][(Searched' /\ (MalformedReed(reed_response') \/ MalformedAdzuna(adzuna_response'))) =>
          /\ reed_jobs'.raised \/ adzuna_jobs'.raised
          /\ outcome' = "raise"
          /\ ret_jobs' = <<>>
          /\ all_jobs' = <<>>
          /\ qa_calls' = 0
          /\ jobs' = jobs
          /\ last_saved' = last_saved]_vars

\* C16 witness: Reed answered with a well-formed item, Adzuna with an item that
\* lacks a mandatory field; the search raised and the table holds the one row
\* it held before.
C16_Witness ==
    /\ Searched
    /\ outcome = "raise"
    /\ reed_response.status = "ok"
    /\ Len(reed_response.results) >= 1
    /\ ~MalformedReed(reed_response)
    /\ MalformedAdzuna(adzuna_response)
    /\ jobs = <<Row(EarlierPosting, 1)>>

LastWithId(js, id) ==
    js[CHOOSE k \in 1..Len(js) :
          /\ js[k].id = id
          /\ \A l \in (k + 1)..Len(js) : js[l].id # id]

C18_ScoresComeFromOwnCv ==
    \A r \in DOMAIN response :
        (handler_pc[r] = "responded" /\ response[r].status = 200) =>
            /\ response[r].scored_with = CvOf(r)
            /\ \A k \in 1..Len(response[r].matches) :
                  response[r].matches[k].match_score # NoScore

\* C18 witness: every request was answered with status 200 and a scored
\* posting, the index of another request's CV being loaded since.
C18_Witness ==
    /\ DOMAIN response = Requests
    /\ \E r \in Requests : qa_chain # CvOf(r)
    /\ \A r \in Requests :
          /\ handler_pc[r] = "responded"
          /\ response[r].status = 200
          /\ response[r].matches # <<>>
          /\ response[r].scored_with = CvOf(r)

====
